---- MODULE Spec2Model ----
(***************************************************************************)
(* The ODD-Sth kernel of grakel/kernels/odd_sth.py: DAG extraction (dag),  *)
(* canonical ordering (odd), subtree canonicalisation (hash_trees), the    *)
(* Big-DAG merge (big_dag_append, make_big_dag) and the kernel matrix      *)
(* (odd_sth_matrix, odd_sth).                                              *)
(*                                                                         *)
(* Python values are modelled as follows.  A dict is a function, a list or *)
(* tuple a sequence (Python index i is TLA+ index i+1), None the empty     *)
(* tuple.  A call that can raise returns a record [exc, val]; exc is       *)
(* "none" when the call returns val normally.                              *)
(***************************************************************************)
EXTENDS Integers, Sequences, FiniteSets, TLC

None == <<>>

Ok(v) == [exc |-> "none", val |-> v]
Raise(e) == [exc |-> e, val |-> None]

----------------------------------------------------------------------------
(* Labels.  Vertex labels are Python str values; they are compared with    *)
(* Python's string order and rendered with str().                          *)

PlainLabels == {"a", "b"}
AllLabels == PlainLabels \cup {"a(b)"}

\* Python's order on the label strings used here: "a" < "a(b)" < "b".
LabelKey(l) == CASE l = "a" -> 1 [] l = "a(b)" -> 2 [] l = "b" -> 3

\* str(label): a str label renders as its own characters.
Str(l) == l

----------------------------------------------------------------------------
(* Sequences, sets and dicts.                                              *)

Range(s) == {s[i] : i \in DOMAIN s}

RECURSIVE SetToSeq(_)
\* list(S) for a set of small non-negative ints: CPython iterates them in
\* ascending order.
SetToSeq(S) ==
  IF S = {} THEN <<>>
  ELSE LET m == CHOOSE x \in S : \A y \in S : x <= y
       IN <<m>> \o SetToSeq(S \ {m})

\* dict[k] = v
Put(f, k, v) == IF k \in DOMAIN f THEN [f EXCEPT ![k] = v] ELSE f @@ (k :> v)

\* Lexicographic order on equal-length tuples of integers (Python tuple <).
RECURSIVE LexLess(_, _)
LexLess(a, b) ==
  IF a = <<>> THEN FALSE
  ELSE IF Head(a) # Head(b) THEN Head(a) < Head(b)
  ELSE LexLess(Tail(a), Tail(b))

RECURSIVE Insert(_, _, _)
Insert(x, s, key) ==
  IF s = <<>> THEN <<x>>
  ELSE IF LexLess(key[x], key[Head(s)]) THEN <<x>> \o s
  ELSE <<Head(s)>> \o Insert(x, Tail(s), key)

RECURSIVE StableSort(_, _)
\* list.sort(key=...) / sorted(..., key=...): stable, ascending by key.
StableSort(s, key) ==
  IF s = <<>> THEN <<>>
  ELSE Insert(s[Len(s)], StableSort(SubSeq(s, 1, Len(s) - 1), key), key)

RECURSIVE Join(_)
\* ','.join(ids)
Join(ids) ==
  IF ids = <<>> THEN ""
  ELSE IF Len(ids) = 1 THEN ids[1]
  ELSE ids[1] \o "," \o Join(Tail(ids))

RECURSIVE SumSeq(_)
SumSeq(s) == IF s = <<>> THEN 0 ELSE Head(s) + SumSeq(Tail(s))

----------------------------------------------------------------------------
(* The graph collaborator (grakel.graph): vertices 1..n, an adjacency      *)
(* relation and a label per vertex.                                        *)

get_vertices(g) == SetToSeq(1 .. g.n)
neighbors(g, u) == SetToSeq(g.adj[u])
get_labels(g) == g.lab

----------------------------------------------------------------------------
(* dag(v, g, h): breadth-first extraction.  The state of the traversal is  *)
(* the record [q, vertices, edges]: the queue, the level of every recorded *)
(* vertex and the edge lists.                                              *)

\* A traversal that also keeps the edges to vertices of its own level.
KeepEdge_SameLevel(vertices, n, level) == vertices[n] >= level

\* line 146: an already recorded neighbour keeps its edge only from the
\* level right above it.
KeepEdge(vertices, n, level) == vertices[n] >= level + 1

RECURSIVE DagNeighbors(_, _, _, _)
\* lines 141-147: the loop over the neighbours ns of u.
DagNeighbors(ns, u, level, st) ==
  IF ns = <<>> THEN st
  ELSE IF Head(ns) \notin DOMAIN st.vertices
    THEN DagNeighbors(Tail(ns), u, level,
           [q |-> Append(st.q, <<Head(ns), level + 1>>),
            vertices |-> Put(st.vertices, Head(ns), level + 1),
            edges |-> [st.edges EXCEPT ![u] = Append(@, Head(ns))]])
  ELSE IF KeepEdge(st.vertices, Head(ns), level)
    THEN DagNeighbors(Tail(ns), u, level,
           [st EXCEPT !.edges[u] = Append(@, Head(ns))])
  ELSE DagNeighbors(Tail(ns), u, level, st)

RECURSIVE DagLoop(_, _, _)
\* lines 133-147: the queue loop.
DagLoop(st, g, h) ==
  IF Len(st.q) = 0 THEN st
  ELSE LET u == Head(st.q)[1]
           level == Head(st.q)[2]
       IN IF level = h THEN st
          ELSE DagLoop(
                 DagNeighbors(neighbors(g, u), u, level,
                   [q |-> Tail(st.q),
                    vertices |-> st.vertices,
                    edges |-> IF u \in DOMAIN st.edges THEN st.edges
                              ELSE Put(st.edges, u, <<>>)]),
                 g, h)

\* lines 121-147: the traversal with its level map, before line 149 reduces
\* the map to its key set.  h is None or <<k>> for the integer k.
DagRun(v, g, h) ==
  IF h # None /\ h[1] <= 0 THEN Raise("ValueError")
  ELSE Ok(DagLoop([q |-> << <<v, 0>> >>, vertices |-> (v :> 0),
                   edges |-> <<>>],
                  g, IF h = None THEN -1 ELSE h[1]))

\* lines 149-150, r the outcome of the traversal: an exception propagates.
DagReturn(r) ==
  IF r.exc # "none" THEN r ELSE Ok(<<DOMAIN r.val.vertices, r.val.edges>>)

dag(v, g, h) == DagReturn(DagRun(v, g, h))

----------------------------------------------------------------------------
(* odd(vertices, edges, labels): Kahn's algorithm with label tie-break.    *)
(* The vertices argument is [type, keys]: type is "set" or "dict" for the  *)
(* two supported Python types, keys the set or the dict's key set.  The    *)
(* state of the loop is [q, ordering, indegrees, visited_nodes].           *)

Remove(f, k) == [x \in DOMAIN f \ {k} |-> f[x]]

\* lines 183-188: indegrees[v] counts the edge entries that name v.
Indegrees(edges) ==
  [v \in UNION {Range(edges[k]) : k \in DOMAIN edges} |->
     Cardinality(UNION {{<<k, i>> : i \in {j \in DOMAIN edges[k] :
                                               edges[k][j] = v}} :
                        k \in DOMAIN edges})]

RECURSIVE OddChildren(_, _)
\* lines 206-212: the loop over the children ks of the removed vertex.
OddChildren(ks, st) ==
  IF ks = <<>> THEN st
  ELSE IF Head(ks) \in DOMAIN st.indegrees
    THEN IF st.indegrees[Head(ks)] = 1
           THEN OddChildren(Tail(ks),
                  [st EXCEPT !.q = Append(@, Head(ks)),
                             !.indegrees = Remove(@, Head(ks))])
           ELSE OddChildren(Tail(ks),
                  [st EXCEPT !.indegrees[Head(ks)] = @ - 1])
  ELSE OddChildren(Tail(ks), st)

\* line 205: the removed vertex takes the current rank.
AssignRank(ordering, e, visited_nodes) == Put(ordering, e, visited_nodes)

\* line 203
SortQueue(q, labels) ==
  StableSort(q, [x \in Range(q) |-> <<LabelKey(labels[x])>>])

RECURSIVE OddLoop(_, _, _)
\* lines 204-213, the queue sorted: its head is removed and ranked.
OddRemove(qs, st, edges, labels) ==
  IF Head(qs) \notin DOMAIN edges THEN Raise("KeyError")
  ELSE OddLoop(
         OddChildren(edges[Head(qs)],
           [q |-> Tail(qs),
            ordering |-> AssignRank(st.ordering, Head(qs), st.visited_nodes),
            indegrees |-> st.indegrees,
            visited_nodes |-> st.visited_nodes - 1]),
         edges, labels)

\* lines 196-213
OddLoop(st, edges, labels) ==
  IF Len(st.q) = 0 THEN Ok(st.ordering)
  ELSE IF \E x \in Range(st.q) : x \notin DOMAIN labels
    THEN Raise("KeyError")
  ELSE OddRemove(SortQueue(st.q, labels), st, edges, labels)

\* lines 216-217: every child list sorted by (rank, label).
SortEdges(edges, ordering, labels) ==
  IF \E k \in DOMAIN edges : \E x \in Range(edges[k]) :
        x \notin DOMAIN ordering \/ x \notin DOMAIN labels
    THEN Raise("KeyError")
    ELSE Ok([k \in DOMAIN edges |->
               StableSort(edges[k],
                          [x \in Range(edges[k]) |->
                             <<ordering[x], LabelKey(labels[x])>>])])

\* line 219, r the outcome of sorting the edges.
OddReturn(vertices, r, ordering, labels) ==
  IF r.exc # "none" THEN r ELSE Ok(<<vertices, r.val, ordering, labels>>)

\* lines 216-219, r the outcome of the loop (the ordering).
OddApply(vertices, edges, r, labels) ==
  IF r.exc # "none" THEN r
  ELSE OddReturn(vertices, SortEdges(edges, r.val, labels), r.val, labels)

odd(vertices, edges, labels) ==
  IF vertices.type \notin {"set", "dict"} THEN Raise("ValueError")
  ELSE OddApply(vertices, edges,
                OddLoop([q |-> SetToSeq(vertices.keys
                                          \ DOMAIN Indegrees(edges)),
                         ordering |-> <<>>,
                         indegrees |-> Indegrees(edges),
                         visited_nodes |-> Cardinality(vertices.keys)],
                        edges, labels),
                labels)

\* make_dag_odd(v, g, h), lines 106-107: the traversal is called with
\* h = None whatever h the caller gave.
\* line 107, r the outcome of dag.
OddOfDag(r, g) ==
  IF r.exc # "none" THEN r
  ELSE odd([type |-> "set", keys |-> r.val[1]], r.val[2], get_labels(g))

make_dag_odd(v, g, h) == OddOfDag(dag(v, g, None), g)

----------------------------------------------------------------------------
(* hash_trees(tree): canonical identity and depth weight of every vertex.  *)
(* The state of the loop is <<vertices, vertices_hash_map>>.               *)

\* line 250
MakeID(label, neighbors_ids) == Str(label) \o "(" \o Join(neighbors_ids) \o ")"

\* lines 239-242 and 252-255: the vertex v recorded with depth weight d and
\* identity ID, and appended to the bucket of key.
HashVertex(v, d, key, ID, st) ==
  <<Put(st[1], v, <<d, 1, ID>>),
    Put(st[2], key,
        Append(IF key \in DOMAIN st[2] THEN st[2][key] ELSE <<>>, v))>>

\* lines 244-255: a vertex with children.
HashInner(v, d, ID, st) == HashVertex(v, d, ID, ID, st)

RECURSIVE HashLoop(_, _, _, _)
\* lines 237-255
HashLoop(vs, st, edge, labels) ==
  IF vs = <<>> THEN Ok(st)
  ELSE LET v == Head(vs) IN
    IF v \notin DOMAIN edge \/ Len(edge[v]) = 0
      THEN HashLoop(Tail(vs),
                    HashVertex(v, 0, labels[v], Str(labels[v]), st),
                    edge, labels)
    ELSE IF \E n \in Range(edge[v]) : n \notin DOMAIN st[1]
      THEN Raise("KeyError")
    ELSE HashLoop(Tail(vs),
           HashInner(v,
             SumSeq([i \in DOMAIN edge[v] |-> 1 + st[1][edge[v][i]][1]]),
             MakeID(labels[v], [i \in DOMAIN edge[v] |-> st[1][edge[v][i]][3]]),
             st),
           edge, labels)

\* line 234 (and line 91 for the Big DAG): the vertices sorted by
\* (rank, label).
OrderVertices(keys, ordering, labels) ==
  StableSort(SetToSeq(keys),
             [x \in keys |-> <<ordering[x], LabelKey(labels[x])>>])

\* line 257, r the outcome of the loop.
HashReturn(r, v_ordered) ==
  IF r.exc # "none" THEN r ELSE Ok(<<r.val[1], r.val[2], v_ordered>>)

\* lines 235-257, v_ordered computed.
HashOrdered(v_ordered, edge, labels) ==
  HashReturn(HashLoop(v_ordered, <<<<>>, <<>>>>, edge, labels), v_ordered)

\* tree is <<vertex, edge, ordering, labels>>.
hash_trees(tree) ==
  IF \E x \in tree[1].keys : x \notin DOMAIN tree[3] \/ x \notin DOMAIN tree[4]
    THEN Raise("KeyError")
    ELSE HashOrdered(OrderVertices(tree[1].keys, tree[3], tree[4]),
                     tree[2], tree[4])

----------------------------------------------------------------------------
(* big_dag_append(dag, big_dag, merge_features).  A Big DAG is the tuple   *)
(* <<D_vertices, D_hash_map, D_edges, D_labels>>; D_vertices[i] is the     *)
(* list <<first element, frequency, identity>>.                            *)

\* lines 290-291: one more slot, zero, in every frequency vector.
ExtendFreq(D_vertices) ==
  [v \in DOMAIN D_vertices |-> [D_vertices[v] EXCEPT ![2] = Append(@, 0)]]

\* lines 289-296: the length of the extended vectors (1 when there is none).
VectorLength(D_vertices) ==
  IF DOMAIN D_vertices = {} THEN 1
  ELSE Len(D_vertices[Head(SetToSeq(DOMAIN D_vertices))][2])

\* A merge that overwrites the frequency instead of adding to it.
BumpFreq_Overwrite(entry, count, merge_features) ==
  IF merge_features
    THEN [entry EXCEPT ![2] = count]
    ELSE [entry EXCEPT ![2] = [@ EXCEPT ![Len(@)] = count]]

\* lines 304-307: the frequency of an identity met again.
BumpFreq(entry, count, merge_features) ==
  IF merge_features
    THEN [entry EXCEPT ![2] = @ + count]
    ELSE [entry EXCEPT ![2] = [@ EXCEPT ![Len(@)] = @ + count]]

\* A new node whose vector lacks the zero slots of the earlier graphs.
NewFreq_NoPadding(count, nf, merge_features) ==
  IF merge_features THEN count ELSE <<count>>

\* lines 325-328: the frequency of a new node.
NewFreq(count, nf, merge_features) ==
  IF merge_features THEN count
  ELSE [i \in 1 .. nf - 1 |-> 0] \o <<count>>

\* line 330: the new node's list; its first element is vertices[q][1].
NewNode(vq, freq, key) == <<vq[2], freq, key>>

\* An edge list that takes a child's node every time it is met.
AddChildEdge_NoDedup(d_edges, node) == Append(d_edges, node)

\* lines 318-320: a child's global node joins the edge list once.
AddChildEdge(d_edges, node) ==
  IF node \notin Range(d_edges) THEN Append(d_edges, node) ELSE d_edges

RECURSIVE ChildEdges(_, _, _, _)
\* lines 313-320
ChildEdges(cs, d_edges, vertices, D_hash_map) ==
  IF cs = <<>> THEN d_edges
  ELSE IF vertices[Head(cs)][3] \in DOMAIN D_hash_map
    THEN ChildEdges(Tail(cs),
           AddChildEdge(d_edges, D_hash_map[vertices[Head(cs)][3]][1]),
           vertices, D_hash_map)
  ELSE ChildEdges(Tail(cs), d_edges, vertices, D_hash_map)

\* A hash map entry that always names node 0.
NewHashEntry_Zero(nodes_idx) == <<0>>

\* line 323
NewHashEntry(nodes_idx) == <<nodes_idx>>

RECURSIVE AppendLoop(_, _, _, _, _, _)
\* lines 299-331; D is the Big DAG so far, dg the DAG being folded (the dag
\* argument).
AppendLoop(vs, D, nodes_idx, nf, dg, merge_features) ==
  IF vs = <<>> THEN Ok(D)
  ELSE LET q == Head(vs)
           vertices == dg[1]
           edges == dg[4]
           labels == dg[5]
           key == dg[1][Head(vs)][3]
       IN IF key \in DOMAIN D[2]
            THEN AppendLoop(Tail(vs),
                   <<[D[1] EXCEPT ![D[2][key][1]] =
                        BumpFreq(@, vertices[q][2], merge_features)],
                     D[2], D[3], D[4]>>,
                   nodes_idx, nf, dg, merge_features)
          ELSE IF q \notin DOMAIN edges
                  \/ \E c \in Range(edges[q]) : c \notin DOMAIN vertices
            THEN Raise("KeyError")
          ELSE AppendLoop(Tail(vs),
                 <<Put(D[1], nodes_idx,
                       NewNode(vertices[q],
                               NewFreq(vertices[q][2], nf, merge_features),
                               key)),
                   Put(D[2], key, NewHashEntry(nodes_idx)),
                   Put(D[3], nodes_idx,
                       ChildEdges(edges[q], <<>>, vertices, D[2])),
                   Put(D[4], nodes_idx, labels[q])>>,
                 nodes_idx + 1, nf, dg, merge_features)

big_dag_append(dg, big_dag, merge_features) ==
  IF big_dag = None
    THEN AppendLoop(dg[3], <<<<>>, <<>>, <<>>, <<>>>>, 0, 1, dg,
                    merge_features)
  ELSE IF merge_features
    THEN AppendLoop(dg[3], big_dag, Cardinality(DOMAIN big_dag[1]), 0, dg,
                    merge_features)
  ELSE AppendLoop(dg[3],
                  <<ExtendFreq(big_dag[1]), big_dag[2], big_dag[3],
                    big_dag[4]>>,
                  Cardinality(DOMAIN big_dag[1]),
                  VectorLength(ExtendFreq(big_dag[1])), dg, merge_features)

----------------------------------------------------------------------------
(* make_big_dag(g, h)                                                      *)

\* lines 85-86: the single-root DAG of v, canonicalised, as the tuple
\* <<vertices, vertices_hash_map, v_ordered, edges, labels>>.
\* line 86: the DAG handed to big_dag_append, r the outcome of hash_trees.
DagTuple(r, dag_odd) ==
  IF r.exc # "none" THEN r ELSE Ok(r.val \o <<dag_odd[2], dag_odd[4]>>)

\* line 86, r the outcome of make_dag_odd.
HashDagOdd(r) ==
  IF r.exc # "none" THEN r ELSE DagTuple(hash_trees(r.val), r.val)

SingleRootDag(v, g, h) == HashDagOdd(make_dag_odd(v, g, h))

\* lines 89-91: the graph's Big DAG ordered for the next fold.
\* lines 89-93, r the outcome of odd on the Big DAG.
OrderBigDagBy(r, big_dag) ==
  IF r.exc # "none" THEN r
  ELSE IF \E x \in DOMAIN big_dag[1] : x \notin DOMAIN r.val[3]
    THEN Raise("KeyError")
  ELSE Ok(<<big_dag[1], big_dag[2],
            OrderVertices(DOMAIN big_dag[1], r.val[3], big_dag[4]),
            r.val[2], big_dag[4]>>)

OrderBigDag(big_dag) ==
  OrderBigDagBy(odd([type |-> "dict", keys |-> DOMAIN big_dag[1]], big_dag[3],
                    big_dag[4]),
                big_dag)

----------------------------------------------------------------------------
(* odd_sth_matrix(Graphs_x, Graphs_y, h): the reduction, lines 33-46 and   *)
(* 54-70.  Graph indices are Python's, from 0.                             *)

\* lines 39 and 45
Pairs(nx, ny, self) ==
  IF self THEN {<<i, j>> \in (0 .. nx - 1) \X (0 .. nx - 1) : i <= j}
  ELSE (nx .. nx + ny - 1) \X (0 .. nx - 1)

\* lines 54-58: C[v] is the first element of the node's list.
NodeWeight(D_vertices, v) == D_vertices[v][1]

\* lines 61-64
PairValue(D_vertices, i, j) ==
  SumSeq([n \in 1 .. Cardinality(DOMAIN D_vertices) |->
            LET v == SetToSeq(DOMAIN D_vertices)[n]
            IN D_vertices[v][2][i + 1] * D_vertices[v][2][j + 1]
                 * NodeWeight(D_vertices, v)])

\* lines 59-68: K[r][c] is written for the pairs (r + offset, c); in self
\* mode np.triu(K) + np.triu(K, 1).T mirrors the upper triangle.
Matrix(D_vertices, nx, ny, self) ==
  LET pairs == Pairs(nx, ny, self)
      offset == IF self THEN 0 ELSE nx
      rows == IF self THEN nx ELSE ny
      K == [r \in 0 .. rows - 1 |-> [c \in 0 .. nx - 1 |->
              IF <<r + offset, c>> \in pairs
                THEN PairValue(D_vertices, r + offset, c) ELSE 0]]
  IN IF self
       THEN [r \in 0 .. rows - 1 |-> [c \in 0 .. nx - 1 |->
               (IF c >= r THEN K[r][c] ELSE 0)
                 + (IF r > c THEN K[c][r] ELSE 0)]]
       ELSE K

----------------------------------------------------------------------------
(* Inputs.                                                                 *)

MaxV == 3
MaxGraphs == 2
MaxH == 2

\* The depth bounds a caller may pass: None, or an integer.
HValues == {None} \cup {<<k>> : k \in 0 .. MaxH}

\* The undirected graphs on the vertices 1..n labelled from Labs; with
\* loops, a vertex may also be its own neighbour.
GraphsOn(n, Labs, loops) ==
  LET cand == {{u, w} : u, w \in 1 .. n}
      allowed == IF loops THEN cand ELSE {e \in cand : Cardinality(e) = 2}
  IN {[n |-> n,
       adj |-> [u \in 1 .. n |-> {w \in 1 .. n : {u, w} \in E}],
       lab |-> lab] : E \in SUBSET allowed, lab \in [1 .. n -> Labs]}

\* The subgraph of g on its first k vertices.
Prefix(g, k) ==
  [n |-> k,
   adj |-> [u \in 1 .. k |-> g.adj[u] \cap (1 .. k)],
   lab |-> [u \in 1 .. k |-> g.lab[u]]]

\* The collections of m graphs drawn from g and its one-vertex-smaller
\* subgraph.
Collections(g, m) ==
  LET sizes == {k \in {g.n - 1, g.n} : k >= 1}
  IN {[i \in 1 .. m |-> Prefix(g, ks[i])] : ks \in [1 .. m -> sizes]}

----------------------------------------------------------------------------
(* State.                                                                  *)

VARIABLES
  pc,        \* the position of the call in progress
  entry,     \* the entry point called: "odd_sth" or "odd_sth_matrix"
  h,         \* the depth bound the caller passed
  Graphs_x,  \* the first collection, a sequence of graphs
  Graphs_y,  \* the second collection, or None
  hm,        \* h as odd_sth_matrix received it
  g_iter,    \* the graphs still to fold (line 49)
  todo,      \* the roots of the current graph still to fold (line 84)
  big_dag,   \* make_big_dag's big_dag
  big2Dag,   \* odd_sth_matrix's big2Dag
  trees,     \* the single-root DAGs folded so far, each with graph and root
  dags,      \* the per-graph Big DAGs folded into big2Dag so far
  arg,       \* the arguments of a direct call of dag, odd or big_dag_append
  ret        \* what the call returned or raised

vars == <<pc, entry, h, Graphs_x, Graphs_y, hm, g_iter, todo, big_dag,
          big2Dag, trees, dags, arg, ret>>

h_x == Len(Graphs_x)
h_y == IF Graphs_y = None THEN h_x ELSE Len(Graphs_y)
ng == IF Graphs_y = None THEN h_x ELSE h_x + h_y
\* the number of graphs folded into big2Dag so far
folded == ng - Len(g_iter)

----------------------------------------------------------------------------
(* The kernel entry points.                                                *)

InitKernel(e, X, Y, hh) ==
  /\ pc = "call" /\ entry = e /\ h = hh /\ Graphs_x = X /\ Graphs_y = Y
  /\ hm = None /\ g_iter = <<>> /\ todo = <<>> /\ big_dag = None
  /\ big2Dag = None /\ trees = <<>> /\ dags = <<>> /\ arg = None
  /\ ret = None

\* The graphs of GraphsOn whose labels do not decrease along the vertex
\* numbers: one graph per renaming of the vertices.
SortedGraphsOn(n, Labs) ==
  {g \in GraphsOn(n, Labs, FALSE) :
     \A u \in 1 .. n - 1 : LabelKey(g.lab[u]) <= LabelKey(g.lab[u + 1])}

\* One graph (any label, no depth bound; or plain labels, a depth bound),
\* or several graphs, against themselves or the first against the rest, or
\* a pair of graphs through odd_sth.
Init ==
  \/ \E n \in 1 .. MaxV : \E g \in GraphsOn(n, AllLabels, FALSE) :
       InitKernel("odd_sth_matrix", <<g>>, None, None)
  \/ \E n \in 1 .. MaxV : \E g \in GraphsOn(n, PlainLabels, FALSE) :
     \E hh \in HValues \ {None} :
       InitKernel("odd_sth_matrix", <<g>>, None, hh)
  \/ \E n \in 1 .. MaxV : \E g \in SortedGraphsOn(n, PlainLabels) :
     \E m \in 2 .. MaxGraphs : \E c \in Collections(g, m) :
       \/ InitKernel("odd_sth_matrix", c, None, None)
       \/ InitKernel("odd_sth_matrix", SubSeq(c, 1, 1), SubSeq(c, 2, m), None)
  \/ \E n \in 1 .. MaxV - 1 : \E g \in SortedGraphsOn(n, PlainLabels) :
     \E c \in Collections(g, 2) : \E hh \in HValues :
       InitKernel("odd_sth", SubSeq(c, 1, 1), SubSeq(c, 2, 2), hh)

\* odd_sth lines 20-22 (h = None is passed on) and odd_sth_matrix lines
\* 33-48.
Begin ==
  /\ pc = "call"
  /\ hm' = IF entry = "odd_sth" THEN None ELSE h
  /\ g_iter' = IF Graphs_y = None THEN Graphs_x ELSE Graphs_x \o Graphs_y
  /\ big2Dag' = None
  /\ big_dag' = None
  /\ IF g_iter' = <<>>
       THEN pc' = "reduce" /\ todo' = <<>>
       ELSE pc' = "make_big_dag" /\ todo' = get_vertices(Head(g_iter'))
  /\ UNCHANGED <<entry, h, Graphs_x, Graphs_y, trees, dags, arg, ret>>

\* make_big_dag lines 84-87: one root of the current graph.
FoldVertex ==
  /\ pc = "make_big_dag" /\ todo # <<>>
  /\ LET v == Head(todo)
         g == Head(g_iter)
         d == SingleRootDag(v, g, hm)
         r == IF d.exc # "none" THEN d
              ELSE big_dag_append(d.val, big_dag, TRUE)
     IN IF r.exc # "none"
          THEN /\ pc' = "raised" /\ ret' = r
               /\ UNCHANGED <<todo, big_dag, trees>>
          ELSE /\ big_dag' = r.val
               /\ todo' = Tail(todo)
               /\ trees' = Append(trees, [g |-> folded, root |-> v,
                                          dag |-> d.val])
               /\ UNCHANGED <<pc, ret>>
  /\ UNCHANGED <<entry, h, Graphs_x, Graphs_y, hm, g_iter, big2Dag, dags,
                 arg>>

\* make_big_dag lines 89-93
FinishBigDag ==
  /\ pc = "make_big_dag" /\ todo = <<>>
  /\ LET r == IF big_dag = None THEN Raise("TypeError")
              ELSE OrderBigDag(big_dag)
     IN IF r.exc # "none"
          THEN pc' = "raised" /\ ret' = r /\ UNCHANGED big_dag
          ELSE pc' = "append" /\ big_dag' = r.val /\ UNCHANGED ret
  /\ UNCHANGED <<entry, h, Graphs_x, Graphs_y, hm, g_iter, todo, big2Dag,
                 trees, dags, arg>>

\* odd_sth_matrix line 51, and the loop of line 49 moving on.
FoldGraph ==
  /\ pc = "append"
  /\ LET r == big_dag_append(big_dag, big2Dag, FALSE)
     IN IF r.exc # "none"
          THEN /\ pc' = "raised" /\ ret' = r
               /\ UNCHANGED <<big2Dag, g_iter, todo, big_dag, dags>>
          ELSE /\ big2Dag' = r.val
               /\ dags' = Append(dags, big_dag)
               /\ g_iter' = Tail(g_iter)
               /\ big_dag' = None
               /\ IF g_iter' = <<>>
                    THEN pc' = "reduce" /\ todo' = <<>>
                    ELSE /\ pc' = "make_big_dag"
                         /\ todo' = get_vertices(Head(g_iter'))
               /\ UNCHANGED ret
  /\ UNCHANGED <<entry, h, Graphs_x, Graphs_y, hm, trees, arg>>

\* odd_sth_matrix lines 54-70; odd_sth returns float(K[0, 0]).
Reduce ==
  /\ pc = "reduce"
  /\ IF big2Dag = None
       THEN pc' = "raised" /\ ret' = Raise("TypeError")
       ELSE LET K == Matrix(big2Dag[1], h_x, h_y, Graphs_y = None)
            IN /\ pc' = "done"
               /\ ret' = IF entry = "odd_sth" THEN Ok(K[0][0]) ELSE Ok(K)
  /\ UNCHANGED <<entry, h, Graphs_x, Graphs_y, hm, g_iter, todo, big_dag,
                 big2Dag, trees, dags, arg>>

Next == Begin \/ FoldVertex \/ FinishBigDag \/ FoldGraph \/ Reduce

Spec == Init /\ [][Next]_vars

----------------------------------------------------------------------------
(* Direct calls of dag, odd and big_dag_append.                            *)

Idle ==
  /\ entry = None /\ h = None /\ Graphs_x = <<>> /\ Graphs_y = None
  /\ hm = None /\ g_iter = <<>> /\ todo = <<>> /\ big2Dag = None
  /\ trees = <<>> /\ dags = <<>>

idle_vars == <<entry, h, Graphs_x, Graphs_y, hm, g_iter, todo, big2Dag,
               trees, dags>>

\* dag(v, g, h) on a graph that may have loops.
InitDag ==
  /\ \E n \in 1 .. MaxV : \E g \in GraphsOn(n, {"a"}, TRUE) :
     \E v \in 1 .. n : \E hh \in HValues :
       arg = [v |-> v, g |-> g, h |-> hh]
  /\ pc = "dag" /\ big_dag = None /\ ret = None /\ Idle

\* ret keeps the level map of the traversal, which line 149 drops.
CallDag ==
  /\ pc = "dag"
  /\ ret' = DagRun(arg.v, arg.g, arg.h)
  /\ pc' = "returned"
  /\ UNCHANGED <<arg, big_dag, idle_vars>>

NextDag == CallDag

SpecDag == InitDag /\ [][NextDag]_vars

\* odd(vertices, edges, labels) on any vertex collection and edge map over
\* the vertices 1..MaxV.
InitOdd ==
  /\ \E keys \in SUBSET (1 .. MaxV) \ {{}} :
     \E type \in {"set", "dict", "list"} :
     \E D \in SUBSET (1 .. MaxV) :
     \E targets \in [D -> SUBSET (1 .. MaxV)] :
     \E L \in {keys, 1 .. MaxV} :
       arg = [vertices |-> [type |-> type, keys |-> keys],
              edges |-> [u \in D |-> SetToSeq(targets[u])],
              labels |-> [u \in L |-> IF u = 1 THEN "a" ELSE "b"]]
  /\ pc = "odd" /\ big_dag = None /\ ret = None /\ Idle

CallOdd ==
  /\ pc = "odd"
  /\ ret' = odd(arg.vertices, arg.edges, arg.labels)
  /\ pc' = "returned"
  /\ UNCHANGED <<arg, big_dag, idle_vars>>

NextOdd == CallOdd

SpecOdd == InitOdd /\ [][NextOdd]_vars

\* big_dag_append(dag, big_dag) in merge mode, the same single-root DAG
\* folded into an empty Big DAG once and then again.
InitFold ==
  /\ \E n \in 1 .. MaxV : \E g \in GraphsOn(n, AllLabels, FALSE) :
     \E v \in 1 .. n :
       arg = [dag |-> SingleRootDag(v, g, None).val, merge_features |-> TRUE]
  /\ pc = "fold" /\ big_dag = None /\ ret = None /\ Idle

FoldOnce ==
  /\ pc = "fold"
  /\ ret' = big_dag_append(arg.dag, big_dag, arg.merge_features)
  /\ big_dag' = ret'.val
  /\ pc' = "once"
  /\ UNCHANGED <<arg, idle_vars>>

\* ret keeps the Big DAG after the first fold.
FoldAgain ==
  /\ pc = "once"
  /\ big_dag' = big_dag_append(arg.dag, big_dag, arg.merge_features).val
  /\ pc' = "twice"
  /\ UNCHANGED <<arg, ret, idle_vars>>

NextFold == FoldOnce \/ FoldAgain

SpecFold == InitFold /\ [][NextFold]_vars

----------------------------------------------------------------------------
(* What the properties below speak of.                                     *)

AllGraphs == IF Graphs_y = None THEN Graphs_x ELSE Graphs_x \o Graphs_y

RECURSIVE SumFn(_)
SumFn(f) ==
  IF DOMAIN f = {} THEN 0
  ELSE LET x == CHOOSE y \in DOMAIN f : TRUE
       IN f[x] + SumFn([y \in DOMAIN f \ {x} |-> f[y]])

\* The identity hash_trees gave vertex v of the single-root DAG d.
IdOf(d, v) == d[1][v][3]
IdsOf(d) == {IdOf(d, v) : v \in DOMAIN d[1]}

\* The number of vertices, over every root of graph g, whose identity is s.
Occurrences(g, s) ==
  SumSeq([i \in DOMAIN trees |->
            IF trees[i].g = g
              THEN Cardinality({v \in DOMAIN trees[i].dag[1] :
                                  IdOf(trees[i].dag, v) = s})
              ELSE 0])

\* The depth weight hash_trees computed for the identity s.
DepthWeight(s) ==
  LET ds == UNION {{trees[i].dag[1][v][1] :
                      v \in {w \in DOMAIN trees[i].dag[1] :
                               IdOf(trees[i].dag, w) = s}} :
                   i \in DOMAIN trees}
  IN CHOOSE d \in ds : TRUE

\* sum over the identities of the Big DAG of n_i(s) * n_j(s) * C(s)
ExpectedEntry(i, j) ==
  SumFn([s \in DOMAIN big2Dag[2] |->
           Occurrences(i, s) * Occurrences(j, s) * DepthWeight(s)])

\* C1: every entry of the returned matrix, for the graph pair (i, j), is the
\* sum over the identities s of the Big DAG of n_i(s) * n_j(s) * C(s), C(s)
\* the depth weight of s.
C1_EntriesWeightedByDepth ==
  pc = "done" =>
    IF entry = "odd_sth" THEN ret.val = ExpectedEntry(h_x, 0)
    ELSE \A r \in DOMAIN ret.val : \A c \in DOMAIN ret.val[r] :
           ret.val[r][c] =
             ExpectedEntry(IF Graphs_y = None THEN r ELSE r + h_x, c)

RECURSIVE Ball(_, _, _)
\* The vertices of g at breadth-first distance at most k from v.
Ball(g, v, k) ==
  IF k = 0 THEN {v}
  ELSE LET B == Ball(g, v, k - 1) IN B \cup UNION {g.adj[u] : u \in B}

\* C2: with a positive depth bound h given to the entry point, every
\* single-root DAG holds exactly the vertices within distance h of its root.
C2_DagWithinDepthBound ==
  (h # None /\ h[1] > 0) =>
    \A i \in DOMAIN trees :
      DOMAIN trees[i].dag[1] =
        Ball(AllGraphs[trees[i].g + 1], trees[i].root, h[1])

\* C3: a call with an explicit depth bound h <= 0 raises before any
\* traversal and returns no value.
C3_NonPositiveDepthRejected ==
  (h # None /\ h[1] <= 0) => (pc # "done" /\ trees = <<>>)

RECURSIVE Unfold(_, _)
\* The ordered labelled tree below vertex v of the single-root DAG d, along
\* the sorted child lists.
Unfold(d, v) ==
  <<d[5][v],
    IF v \in DOMAIN d[4]
      THEN [i \in DOMAIN d[4][v] |-> Unfold(d, d[4][v][i])]
      ELSE <<>> >>

\* C5: two vertices have the same canonical identity if and only if their
\* unfolded ordered labelled trees are the same.
C5_IdentityIffSameTree ==
  \A i, j \in DOMAIN trees :
    \A v \in DOMAIN trees[i].dag[1] : \A w \in DOMAIN trees[j].dag[1] :
      (IdOf(trees[i].dag, v) = IdOf(trees[j].dag, w))
        <=> (Unfold(trees[i].dag, v) = Unfold(trees[j].dag, w))

\* C6: after k graphs are folded, every frequency vector of big2Dag has
\* length k and its slot g counts the occurrences of the node's identity in
\* graph g.
C6_FrequencyVectors ==
  big2Dag # None =>
    \A v \in DOMAIN big2Dag[1] :
      /\ Len(big2Dag[1][v][2]) = folded
      /\ \A g \in 0 .. folded - 1 :
           big2Dag[1][v][2][g + 1] = Occurrences(g, big2Dag[1][v][3])

C6_Witness ==
  /\ big2Dag # None /\ folded >= 2
  /\ \E v \in DOMAIN big2Dag[1] :
       big2Dag[1][v][2][1] = 0 /\ big2Dag[1][v][2][2] > 0
  /\ \E v \in DOMAIN big2Dag[1] :
       big2Dag[1][v][2][1] > 1 /\ big2Dag[1][v][2][2] > 0
       /\ big2Dag[1][v][2][1] # big2Dag[1][v][2][2]

\* The identities of the single-root DAGs of the graphs whose number
\* satisfies the test.
IdsOfGraphs(G) ==
  UNION {IdsOf(trees[i].dag) : i \in {k \in DOMAIN trees : trees[k].g \in G}}

\* The hash map of the Big DAG D has one entry per identity of ids, onto the
\* node numbers 0..n-1, and each node carries the identity mapped to it.
WellIndexed(D, ids) ==
  /\ DOMAIN D[2] = ids
  /\ DOMAIN D[1] = 0 .. Cardinality(ids) - 1
  /\ \A k \in ids :
       /\ Len(D[2][k]) = 1
       /\ D[2][k][1] \in DOMAIN D[1]
       /\ D[1][D[2][k][1]][3] = k
  /\ \A k1, k2 \in ids : D[2][k1][1] = D[2][k2][1] => k1 = k2

\* The fold from D to E keeps every entry of the hash map as it was.
KeepsEntries(D, E) ==
  (D # None /\ E # None) =>
    \A k \in DOMAIN D[2] : k \in DOMAIN E[2] /\ E[2][k] = D[2][k]

C7_Indexed ==
  /\ big_dag # None => WellIndexed(big_dag, IdsOfGraphs({folded}))
  /\ big2Dag # None => WellIndexed(big2Dag, IdsOfGraphs(0 .. folded - 1))

\* C7: after every fold, in merge mode (big_dag) and in vector mode
\* (big2Dag), the hash map has exactly one entry per identity folded so far,
\* the mapped indices are distinct and are 0..n-1, the node at a mapped index
\* carries that identity, and no fold removes or re-indexes an entry.
C7_HashMapOneEntryPerIdentity ==
  [][/\ C7_Indexed'
     /\ KeepsEntries(big_dag, big_dag')
     /\ KeepsEntries(big2Dag, big2Dag')]_vars

C7_Witness ==
  /\ big2Dag # None /\ folded >= 2
  /\ IdsOfGraphs({0}) \cap IdsOfGraphs({1}) # {}
  /\ IdsOfGraphs({1}) \ IdsOfGraphs({0}) # {}
  /\ \E i \in DOMAIN trees : \E v, w \in DOMAIN trees[i].dag[1] :
       v # w /\ IdOf(trees[i].dag, v) = IdOf(trees[i].dag, w)

KeysOf(D) == IF D = None THEN {} ELSE DOMAIN D[2]

\* The positions in the fold order of d at which big_dag_append, starting
\* from the Big DAG before, allocates a new node.
Allocating(d, before) ==
  {i \in DOMAIN d[3] :
     /\ IdOf(d, d[3][i]) \notin KeysOf(before)
     /\ \A j \in 1 .. i - 1 : IdOf(d, d[3][j]) # IdOf(d, d[3][i])}

\* Every node allocated while d is folded has all its children earlier in
\* the fold order, and its edge list is the duplicate-free set of its
\* children's global nodes.
AllocatedWithAllChildren(d, before, after) ==
  \A i \in Allocating(d, before) :
    LET q == d[3][i]
        children == Range(d[4][q])
        node == after[2][IdOf(d, q)][1]
    IN /\ \A c \in children : \E j \in 1 .. i - 1 : d[3][j] = c
       /\ \A c \in children : IdOf(d, c) \in DOMAIN after[2]
       /\ Range(after[3][node]) = {after[2][IdOf(d, c)][1] : c \in children}
       /\ Len(after[3][node]) = Cardinality(Range(after[3][node]))

\* C8: whenever a fold allocates a node for a vertex q, per vertex in
\* make_big_dag and per graph in odd_sth_matrix, every child of q is already
\* mapped, and the node's edge list is exactly the duplicate-free set of the
\* children's global indices.
C8_ChildrenMappedBeforeParent ==
  [][/\ (pc = "make_big_dag" /\ Len(trees') > Len(trees)) =>
          AllocatedWithAllChildren(trees'[Len(trees')].dag, big_dag, big_dag')
     /\ (pc = "append" /\ Len(dags') > Len(dags)) =>
          AllocatedWithAllChildren(big_dag, big2Dag, big2Dag')]_vars

\* Some folded vertex has two children of one identity, and some node of a
\* per-graph Big DAG has two children.
C8_Witness ==
  /\ pc = "done"
  /\ \E i \in DOMAIN trees : \E q \in DOMAIN trees[i].dag[4] :
       \E a, b \in DOMAIN trees[i].dag[4][q] :
         /\ a # b
         /\ IdOf(trees[i].dag, trees[i].dag[4][q][a])
              = IdOf(trees[i].dag, trees[i].dag[4][q][b])
  /\ \E i \in DOMAIN dags : \E q \in DOMAIN dags[i][4] :
       Len(dags[i][4][q]) >= 2

\* C4: in merge mode, folding a single-root DAG into an empty Big DAG twice
\* gives the nodes of folding it once (identities, indices, edges, labels),
\* each with twice the frequency.
C4_SecondFoldDoublesFrequencies ==
  pc = "twice" =>
    /\ big_dag[2] = ret.val[2]
    /\ big_dag[3] = ret.val[3]
    /\ big_dag[4] = ret.val[4]
    /\ DOMAIN big_dag[1] = DOMAIN ret.val[1]
    /\ \A v \in DOMAIN big_dag[1] :
         /\ big_dag[1][v][3] = ret.val[1][v][3]
         /\ big_dag[1][v][2] = 2 * ret.val[1][v][2]

C4_Witness ==
  /\ pc = "twice"
  /\ Cardinality(DOMAIN big_dag[1]) >= 2
  /\ \E v \in DOMAIN big_dag[1] : ret.val[1][v][2] >= 2 /\ big_dag[1][v][2] >= 4

\* The breadth-first distance from v to the reachable vertex w.
Dist(g, v, w) ==
  CHOOSE k \in 0 .. g.n :
    w \in Ball(g, v, k) /\ (k = 0 \/ w \notin Ball(g, v, k - 1))

\* C9: dag() records every reached vertex at its breadth-first distance from
\* the root, and every edge it keeps goes from a level to the next one.
C9_EdgesDescendOneLevel ==
  (pc = "returned" /\ ret.exc = "none") =>
    LET levels == ret.val.vertices
        edges == ret.val.edges
    IN /\ \A w \in DOMAIN levels : levels[w] = Dist(arg.g, arg.v, w)
       /\ \A u \in DOMAIN edges :
            /\ u \in DOMAIN levels
            /\ \A i \in DOMAIN edges[u] :
                 /\ edges[u][i] \in DOMAIN levels
                 /\ levels[edges[u][i]] = levels[u] + 1

\* A traversal that met a loop, a neighbour of the same level and the parent
\* of a vertex.
C9_Witness ==
  /\ pc = "returned" /\ ret.exc = "none"
  /\ \E u \in DOMAIN ret.val.edges : u \in arg.g.adj[u]
  /\ \E u \in DOMAIN ret.val.edges : \E w \in arg.g.adj[u] \ {u} :
       w \in DOMAIN ret.val.vertices
         /\ ret.val.vertices[w] = ret.val.vertices[u]
  /\ \E u \in DOMAIN ret.val.edges : \E w \in arg.g.adj[u] :
       ret.val.vertices[w] < ret.val.vertices[u]

\* The vertex collection is neither a set nor a dict, or an edge names a
\* vertex outside the collection.
Malformed(a) ==
  \/ a.vertices.type \notin {"set", "dict"}
  \/ \E k \in DOMAIN a.edges : \E x \in Range(a.edges[k]) :
       x \notin a.vertices.keys

\* C10: odd() fails, and returns no ordering, whenever the vertex collection
\* is neither a set nor a mapping or an edge's target is outside the vertex
\* set.
C10_MalformedInputRejected ==
  (pc = "returned" /\ Malformed(arg)) => ret.exc # "none"

====
